---- MODULE Spec2Model ----
(***************************************************************************)
(* Model of the rigid-body island solver:                                  *)
(*   src/src/dynamics/solver/island_solver.rs      (IslandSolver)          *)
(*   src/src/dynamics/solver/velocity_constraint.rs (VelocityConstraint)   *)
(*                                                                         *)
(* The model is the scalar, non-wasm, "dim2" build: vectors have DIM = 2   *)
(* components, angular quantities are scalars and every contact has        *)
(* DIM - 1 = 1 tangent direction.  Real numbers are exact rationals        *)
(* <<numerator, denominator>> in lowest terms with a positive denominator, *)
(* so floating-point rounding is abstracted away (the "within epsilon" of  *)
(* the prose becomes exact equality).  Indices are 0-based as in the code; *)
(* sequences are indexed with index + 1.                                   *)
(*                                                                         *)
(* Spec is one call of solve_island, statement by statement; SpecGenerate  *)
(* is one call of VelocityConstraint::generate in either output mode.      *)
(***************************************************************************)
EXTENDS Integers, Sequences, FiniteSets, TLC

(***************************************************************************)
(* Build constants (crate::math, imported at velocity_constraint.rs:7).    *)
(***************************************************************************)
DIM == 2

MAX_MANIFOLD_POINTS == 2

(***************************************************************************)
(* Real arithmetic (type Real), exact.                                     *)
(***************************************************************************)
Abs(n) == IF n < 0 THEN -n ELSE n

RECURSIVE Gcd(_, _)
Gcd(a, b) == IF b = 0 THEN a ELSE Gcd(b, a % b)

Rat(n, d) ==
    LET s == IF d < 0 THEN -1 ELSE 1
        g == Gcd(Abs(n), Abs(d))
    IN  <<(s * n) \div g, (s * d) \div g>>

R(n) == <<n, 1>>

Zero == R(0)

One == R(1)

\* sums and comparisons go through the least common denominator and products
\* cancel crosswise first, which keeps the intermediate integers small
Lcm(a, b) == (a \div Gcd(a, b)) * b

RAdd(a, b) ==
    LET d == Lcm(a[2], b[2])
    IN  Rat(a[1] * (d \div a[2]) + b[1] * (d \div b[2]), d)

RNeg(a) == <<-a[1], a[2]>>

RSub(a, b) == RAdd(a, RNeg(b))

RMul(a, b) ==
    LET g1 == Gcd(Abs(a[1]), b[2])
        g2 == Gcd(Abs(b[1]), a[2])
    IN  Rat((a[1] \div g1) * (b[1] \div g2), (a[2] \div g2) * (b[2] \div g1))

RInv(a) == Rat(a[2], a[1])

RLt(a, b) ==
    LET d == Lcm(a[2], b[2])
    IN  a[1] * (d \div a[2]) < b[1] * (d \div b[2])

RLe(a, b) == ~RLt(b, a)

RMax(a, b) == IF RLt(a, b) THEN b ELSE a

RMin(a, b) == IF RLt(b, a) THEN b ELSE a

RAbs(a) == <<Abs(a[1]), a[2]>>

\* simba's scalar simd_clamp: if self < min {min} else if self > max {max} else {self}
SimdClamp(x, lo, hi) == IF RLt(x, lo) THEN lo ELSE IF RLt(hi, x) THEN hi ELSE x

(***************************************************************************)
(* Vector<Real> of the dim2 build and the utils traits used by the solver. *)
(***************************************************************************)
V(x, y) == <<R(x), R(y)>>

VZero == V(0, 0)

VAdd(u, v) == <<RAdd(u[1], v[1]), RAdd(u[2], v[2])>>

VSub(u, v) == <<RSub(u[1], v[1]), RSub(u[2], v[2])>>

VNeg(u) == <<RNeg(u[1]), RNeg(u[2])>>

VScale(u, s) == <<RMul(u[1], s), RMul(u[2], s)>>

Dot(u, v) == RAdd(RMul(u[1], v[1]), RMul(u[2], v[2]))

\* WCross for Vector2: the perp product, an angular scalar.
GCrossVV(u, v) == RSub(RMul(u[1], v[2]), RMul(u[2], v[1]))

\* WCross for Real (an angular velocity) with a Vector2.
GCrossAV(w, v) == <<RMul(RNeg(v[2]), w), RMul(v[1], w)>>

\* WBasis for Vector2: the DIM - 1 tangents of a direction.
OrthonormalBasis(d) == << <<RNeg(d[2]), d[1]>> >>

\* WAngularInertia for Real: transform_vector.
TransformVector(inertia, x) == RMul(x, inertia)

(***************************************************************************)
(* DeltaVel.                                                               *)
(***************************************************************************)
DeltaVelZero == [linear |-> VZero, angular |-> Zero]

(***************************************************************************)
(* VelocityConstraintElementPart::zero, VelocityConstraintElement::zero.   *)
(***************************************************************************)
ElementPartZero ==
    [gcross1 |-> Zero, gcross2 |-> Zero, rhs |-> Zero, impulse |-> Zero, r |-> Zero]

ElementZero ==
    [normal_part |-> ElementPartZero,
     tangent_part |-> [j \in 1..(DIM - 1) |-> ElementPartZero]]

(***************************************************************************)
(* IntegrationParameters accessors.                                        *)
(***************************************************************************)
InvDt(params) == IF params.dt = Zero THEN Zero ELSE RInv(params.dt)

VelocityBasedErpInvDt(params) == RMul(params.velocity_based_erp, InvDt(params))

(***************************************************************************)
(* VelocityConstraint::num_active_constraints.                             *)
(***************************************************************************)
NumActiveConstraints(manifold) ==
    LET rest == (Len(manifold.solver_contacts) % MAX_MANIFOLD_POINTS) # 0
    IN  (Len(manifold.solver_contacts) \div MAX_MANIFOLD_POINTS)
            + (IF rest THEN 1 ELSE 0)

(***************************************************************************)
(* slice::chunks(MAX_MANIFOLD_POINTS): successive sub-slices of at most    *)
(* `size` items, the last one possibly shorter; none for an empty slice.   *)
(***************************************************************************)
\* variant: a trailing chunk shorter than size is dropped
RECURSIVE ChunksExact(_, _)
ChunksExact(s, size) ==
    IF Len(s) < size THEN <<>>
    ELSE <<SubSeq(s, 1, size)>> \o ChunksExact(SubSeq(s, size + 1, Len(s)), size)

RECURSIVE Chunks(_, _)
Chunks(s, size) ==
    IF Len(s) = 0 THEN <<>>
    ELSE IF Len(s) <= size THEN <<s>>
    ELSE <<SubSeq(s, 1, size)>> \o Chunks(SubSeq(s, size + 1, Len(s)), size)

(***************************************************************************)
(* VelocityConstraint::generate: the effective mass r of one element part  *)
(* (lines 242-246 and 277-281).                                            *)
(***************************************************************************)
EffectiveMass(im1, im2, gcross1, gcross2) ==
    RInv(RAdd(RAdd(im1, im2), RAdd(RMul(gcross1, gcross1), RMul(gcross2, gcross2))))

(***************************************************************************)
(* VelocityConstraint::generate: the right-hand side of a normal part      *)
(* (lines 248-255), from the contact-point velocities vel1 and vel2.       *)
(***************************************************************************)
\* variant: the restitution term is left out
NormalRhsNoRestitution(p, mp, vel1, vel2, force_dir1) ==
    LET is_bouncy == IF mp.is_bouncy THEN One ELSE Zero
        is_resting == RSub(One, is_bouncy)
        rhs0 == Dot(VSub(vel1, vel2), force_dir1)
        rhs1 == RAdd(rhs0, RMul(RMax(mp.dist, Zero), InvDt(p)))
        rhs2 == RMul(rhs1, RAdd(is_bouncy, RMul(is_resting, p.velocity_solve_fraction)))
    IN  RAdd(rhs2, RMul(RMul(is_resting, VelocityBasedErpInvDt(p)), RMin(mp.dist, Zero)))

NormalRhs(p, mp, vel1, vel2, force_dir1) ==
    LET is_bouncy == IF mp.is_bouncy THEN One ELSE Zero
        is_resting == RSub(One, is_bouncy)
        rhs0 == RMul(RAdd(One, RMul(is_bouncy, mp.restitution)),
                     Dot(VSub(vel1, vel2), force_dir1))
        rhs1 == RAdd(rhs0, RMul(RMax(mp.dist, Zero), InvDt(p)))
        rhs2 == RMul(rhs1, RAdd(is_bouncy, RMul(is_resting, p.velocity_solve_fraction)))
    IN  RAdd(rhs2, RMul(RMul(is_resting, VelocityBasedErpInvDt(p)), RMin(mp.dist, Zero)))

(***************************************************************************)
(* VelocityConstraint::generate, body of the loop over the contacts of one *)
(* chunk: the normal part of contact `mp`.                                 *)
(***************************************************************************)
NormalPart(params, manifold, rb1, rb2, mp) ==
    LET force_dir1 == VNeg(manifold.normal)
        warmstart_coeff == RMul(manifold.warmstart_multiplier, params.warmstart_coeff)
        dp1 == VSub(mp.point, rb1.world_com)
        dp2 == VSub(mp.point, rb2.world_com)
        vel1 == VAdd(rb1.linvel, GCrossAV(rb1.angvel, dp1))
        vel2 == VAdd(rb2.linvel, GCrossAV(rb2.angvel, dp2))
        gcross1 == TransformVector(rb1.effective_world_inv_inertia_sqrt,
                                   GCrossVV(dp1, force_dir1))
        gcross2 == TransformVector(rb2.effective_world_inv_inertia_sqrt,
                                   GCrossVV(dp2, VNeg(force_dir1)))
        r == EffectiveMass(rb1.effective_inv_mass, rb2.effective_inv_mass, gcross1, gcross2)
        rhs == NormalRhs(params, mp, vel1, vel2, force_dir1)
    IN  [gcross1 |-> gcross1, gcross2 |-> gcross2, rhs |-> rhs,
         impulse |-> RMul(mp.data.impulse, warmstart_coeff), r |-> r]

(***************************************************************************)
(* VelocityConstraint::generate: tangent part j (0-based) of contact `mp`. *)
(***************************************************************************)
TangentPart(params, manifold, rb1, rb2, mp, j) ==
    LET force_dir1 == VNeg(manifold.normal)
        warmstart_coeff == RMul(manifold.warmstart_multiplier, params.warmstart_coeff)
        dp1 == VSub(mp.point, rb1.world_com)
        dp2 == VSub(mp.point, rb2.world_com)
        vel1 == VAdd(rb1.linvel, GCrossAV(rb1.angvel, dp1))
        vel2 == VAdd(rb2.linvel, GCrossAV(rb2.angvel, dp2))
        tangents1 == OrthonormalBasis(force_dir1)
        gcross1 == TransformVector(rb1.effective_world_inv_inertia_sqrt,
                                   GCrossVV(dp1, tangents1[j + 1]))
        gcross2 == TransformVector(rb2.effective_world_inv_inertia_sqrt,
                                   GCrossVV(dp2, VNeg(tangents1[j + 1])))
        r == EffectiveMass(rb1.effective_inv_mass, rb2.effective_inv_mass, gcross1, gcross2)
        rhs == Dot(VAdd(VSub(vel1, vel2), mp.tangent_velocity), tangents1[j + 1])
        \* dim2: data.tangent_impulse is one Real
        impulse == RMul(mp.data.tangent_impulse, warmstart_coeff)
    IN  [gcross1 |-> gcross1, gcross2 |-> gcross2, rhs |-> rhs,
         impulse |-> impulse, r |-> r]

(***************************************************************************)
(* VelocityConstraint::generate: the constraint built from one chunk.      *)
(* The header is initialised with limit 0, contact ids 0 and zero          *)
(* elements; the loop over k then overwrites limit, manifold_contact_id[k] *)
(* and elements[k].                                                        *)
(***************************************************************************)
ConstraintHeader(manifold_id, manifold, bodies, manifold_points) ==
    [dir1 |-> VNeg(manifold.normal),
     elements |-> [k \in 1..MAX_MANIFOLD_POINTS |-> ElementZero],
     im1 |-> bodies[manifold.body1 + 1].effective_inv_mass,
     im2 |-> bodies[manifold.body2 + 1].effective_inv_mass,
     limit |-> Zero,
     mj_lambda1 |-> bodies[manifold.body1 + 1].active_set_offset,
     mj_lambda2 |-> bodies[manifold.body2 + 1].active_set_offset,
     manifold_id |-> manifold_id,
     manifold_contact_id |-> [k \in 1..MAX_MANIFOLD_POINTS |-> 0],
     num_contacts |-> Len(manifold_points)]

RECURSIVE FillContacts(_, _, _, _, _, _)
FillContacts(constraint, params, manifold, bodies, manifold_points, k) ==
    IF k >= Len(manifold_points) THEN constraint
    ELSE
        LET mp == manifold_points[k + 1]
            rb1 == bodies[manifold.body1 + 1]
            rb2 == bodies[manifold.body2 + 1]
            elt == [normal_part |-> NormalPart(params, manifold, rb1, rb2, mp),
                    tangent_part |-> [j \in 1..(DIM - 1) |->
                        TangentPart(params, manifold, rb1, rb2, mp, j - 1)]]
            next == [constraint EXCEPT
                        !.limit = mp.friction,
                        !.manifold_contact_id[k + 1] = mp.contact_id,
                        !.elements[k + 1] = elt]
        IN  FillContacts(next, params, manifold, bodies, manifold_points, k + 1)

GenerateConstraint(params, manifold_id, manifold, bodies, manifold_points) ==
    FillContacts(ConstraintHeader(manifold_id, manifold, bodies, manifold_points),
                 params, manifold, bodies, manifold_points, 0)

(***************************************************************************)
(* VelocityConstraint::generate (non-wasm build): one constraint per chunk *)
(* of solver contacts, pushed at the end of out_constraints or written at  *)
(* constraint_index + l.  The caller has checked relative_dominance = 0    *)
(* (the assert_eq at the top of generate aborts otherwise).                *)
(***************************************************************************)
RECURSIVE CommitChunks(_, _, _, _, _, _, _, _)
CommitChunks(out, params, manifold_id, manifold, bodies, chunks, push, l) ==
    IF l >= Len(chunks) THEN out
    ELSE
        LET Commit1(constraint) ==
                IF push THEN Append(out, constraint)
                ELSE [out EXCEPT ![manifold.constraint_index + l + 1] = constraint]
        IN  CommitChunks(
                Commit1(GenerateConstraint(params, manifold_id, manifold, bodies,
                                           chunks[l + 1])),
                params, manifold_id, manifold, bodies, chunks, push, l + 1)

Generate(params, manifold_id, manifold, bodies, out_constraints, push) ==
    CommitChunks(out_constraints, params, manifold_id, manifold, bodies,
                 Chunks(manifold.solver_contacts, MAX_MANIFOLD_POINTS), push, 0)

(***************************************************************************)
(* Applying an impulse change dlambda of one element part along direction  *)
(* `dir` to the two local delta-velocities (the four += lines that follow  *)
(* each impulse update in warmstart and solve).                            *)
(***************************************************************************)
ApplyImpulse1(c, mj_lambda1, dir, elt, dlambda) ==
    [linear |-> VAdd(mj_lambda1.linear, VScale(dir, RMul(c.im1, dlambda))),
     angular |-> RAdd(mj_lambda1.angular, RMul(elt.gcross1, dlambda))]

ApplyImpulse2(c, mj_lambda2, dir, elt, dlambda) ==
    [linear |-> VAdd(mj_lambda2.linear, VScale(dir, RMul(RNeg(c.im2), dlambda))),
     angular |-> RAdd(mj_lambda2.angular, RMul(elt.gcross2, dlambda))]

(***************************************************************************)
(* VelocityConstraint::warmstart.                                          *)
(***************************************************************************)
RECURSIVE WarmstartTangents(_, _, _, _)
WarmstartTangents(c, acc, i, j) ==
    IF j >= DIM - 1 THEN acc
    ELSE
        LET tangents1 == OrthonormalBasis(c.dir1)
            elt == c.elements[i + 1].tangent_part[j + 1]
        IN  WarmstartTangents(c,
                [l1 |-> ApplyImpulse1(c, acc.l1, tangents1[j + 1], elt, elt.impulse),
                 l2 |-> ApplyImpulse2(c, acc.l2, tangents1[j + 1], elt, elt.impulse)],
                i, j + 1)

RECURSIVE WarmstartContacts(_, _, _)
WarmstartContacts(c, acc, i) ==
    IF i >= c.num_contacts THEN acc
    ELSE
        LET elt == c.elements[i + 1].normal_part
            afterNormal ==
                [l1 |-> ApplyImpulse1(c, acc.l1, c.dir1, elt, elt.impulse),
                 l2 |-> ApplyImpulse2(c, acc.l2, c.dir1, elt, elt.impulse)]
        IN  WarmstartContacts(c, WarmstartTangents(c, afterNormal, i, 0), i + 1)

\* variant: the entry is overwritten, not added to
AddDeltaVelOverwrite(mj_lambdas, slot, d) ==
    [mj_lambdas EXCEPT ![slot + 1] = [linear |-> d.linear, angular |-> d.angular]]

AddDeltaVel(mj_lambdas, slot, d) ==
    [mj_lambdas EXCEPT
        ![slot + 1] = [linear |-> VAdd(@.linear, d.linear),
                       angular |-> RAdd(@.angular, d.angular)]]

WarmstartAdd(c, mj_lambdas, acc) ==
    AddDeltaVel(AddDeltaVel(mj_lambdas, c.mj_lambda1, acc.l1), c.mj_lambda2, acc.l2)

Warmstart(c, mj_lambdas) ==
    WarmstartAdd(c, mj_lambdas,
                 WarmstartContacts(c, [l1 |-> DeltaVelZero, l2 |-> DeltaVelZero], 0))

(***************************************************************************)
(* VelocityConstraint::solve.  The accumulator holds the constraint, the   *)
(* two local delta-velocities and `log`, the order in which element parts  *)
(* were updated together with the clamp bound each tangent update used     *)
(* (observation only: nothing reads it back).                              *)
(***************************************************************************)
Dimpulse(dir, elt, mj_lambda1, mj_lambda2) ==
    RAdd(RAdd(RSub(RAdd(Dot(dir, mj_lambda1.linear),
                        RMul(elt.gcross1, mj_lambda1.angular)),
                   Dot(dir, mj_lambda2.linear)),
              RMul(elt.gcross2, mj_lambda2.angular)),
         elt.rhs)

\* let limit = self.limit * normal_elt.impulse;
TangentLimit(c, i) ==
    LET normal_elt == c.elements[i + 1].normal_part
    IN  RMul(c.limit, normal_elt.impulse)

TangentNewImpulse(c, i, j, mj_lambda1, mj_lambda2) ==
    LET tangents1 == OrthonormalBasis(c.dir1)
        elt == c.elements[i + 1].tangent_part[j + 1]
        dimpulse == Dimpulse(tangents1[j + 1], elt, mj_lambda1, mj_lambda2)
        limit == TangentLimit(c, i)
    IN  SimdClamp(RSub(elt.impulse, RMul(elt.r, dimpulse)), RNeg(limit), limit)

\* variant: the projection onto non-negative impulses is left out
NormalNewImpulseUnprojected(c, i, mj_lambda1, mj_lambda2) ==
    LET elt == c.elements[i + 1].normal_part
        dimpulse == Dimpulse(c.dir1, elt, mj_lambda1, mj_lambda2)
    IN  RSub(elt.impulse, RMul(elt.r, dimpulse))

NormalNewImpulse(c, i, mj_lambda1, mj_lambda2) ==
    LET elt == c.elements[i + 1].normal_part
        dimpulse == Dimpulse(c.dir1, elt, mj_lambda1, mj_lambda2)
    IN  RMax(RSub(elt.impulse, RMul(elt.r, dimpulse)), Zero)

\* lines 359-366: dlambda, the impulse update and the four += of a tangent
UpdateTangent(acc, i, j, new_impulse, dlambda) ==
    [c |-> [acc.c EXCEPT !.elements[i + 1].tangent_part[j + 1].impulse = new_impulse],
     l1 |-> ApplyImpulse1(acc.c, acc.l1, OrthonormalBasis(acc.c.dir1)[j + 1],
                          acc.c.elements[i + 1].tangent_part[j + 1], dlambda),
     l2 |-> ApplyImpulse2(acc.c, acc.l2, OrthonormalBasis(acc.c.dir1)[j + 1],
                          acc.c.elements[i + 1].tangent_part[j + 1], dlambda),
     log |-> Append(acc.log,
                [part |-> "tangent", i |-> i, j |-> j, limit |-> TangentLimit(acc.c, i)])]

TangentDlambda(acc, i, j, new_impulse) ==
    UpdateTangent(acc, i, j, new_impulse,
                  RSub(new_impulse, acc.c.elements[i + 1].tangent_part[j + 1].impulse))

SolveTangentElement(acc, i, j) ==
    TangentDlambda(acc, i, j, TangentNewImpulse(acc.c, i, j, acc.l1, acc.l2))

\* variant: the whole new impulse, not its increment, goes to the buffer
UpdateNormalWhole(acc, i, new_impulse, dlambda) ==
    [c |-> [acc.c EXCEPT !.elements[i + 1].normal_part.impulse = new_impulse],
     l1 |-> ApplyImpulse1(acc.c, acc.l1, acc.c.dir1,
                          acc.c.elements[i + 1].normal_part, new_impulse),
     l2 |-> ApplyImpulse2(acc.c, acc.l2, acc.c.dir1,
                          acc.c.elements[i + 1].normal_part, new_impulse),
     log |-> Append(acc.log, [part |-> "normal", i |-> i, j |-> 0, limit |-> Zero])]

\* lines 378-385: dlambda, the impulse update and the four += of a normal
UpdateNormal(acc, i, new_impulse, dlambda) ==
    [c |-> [acc.c EXCEPT !.elements[i + 1].normal_part.impulse = new_impulse],
     l1 |-> ApplyImpulse1(acc.c, acc.l1, acc.c.dir1,
                          acc.c.elements[i + 1].normal_part, dlambda),
     l2 |-> ApplyImpulse2(acc.c, acc.l2, acc.c.dir1,
                          acc.c.elements[i + 1].normal_part, dlambda),
     log |-> Append(acc.log, [part |-> "normal", i |-> i, j |-> 0, limit |-> Zero])]

NormalDlambda(acc, i, new_impulse) ==
    UpdateNormal(acc, i, new_impulse,
                 RSub(new_impulse, acc.c.elements[i + 1].normal_part.impulse))

SolveNormalElement(acc, i) ==
    NormalDlambda(acc, i, NormalNewImpulse(acc.c, i, acc.l1, acc.l2))

RECURSIVE SolveFriction(_, _, _)
SolveFriction(acc, i, j) ==
    IF i >= acc.c.num_contacts THEN acc
    ELSE IF j >= DIM - 1 THEN SolveFriction(acc, i + 1, 0)
    ELSE SolveFriction(SolveTangentElement(acc, i, j), i, j + 1)

RECURSIVE SolveNonPenetration(_, _)
SolveNonPenetration(acc, i) ==
    IF i >= acc.c.num_contacts THEN acc
    ELSE SolveNonPenetration(SolveNormalElement(acc, i), i + 1)

\* variant: the non-penetration loop runs before the friction loop
SolveSweepNormalFirst(acc) == SolveFriction(SolveNonPenetration(acc, 0), 0, 0)

SolveSweep(acc) == SolveNonPenetration(SolveFriction(acc, 0, 0), 0)

\* lines 388-389
SolveStore(c, mj_lambdas, acc) ==
    [c |-> acc.c,
     mj_lambdas |-> [[mj_lambdas EXCEPT ![c.mj_lambda1 + 1] = acc.l1]
                        EXCEPT ![c.mj_lambda2 + 1] = acc.l2],
     log |-> acc.log]

Solve(c, mj_lambdas) ==
    SolveStore(c, mj_lambdas,
               SolveSweep([c |-> c,
                           l1 |-> mj_lambdas[c.mj_lambda1 + 1],
                           l2 |-> mj_lambdas[c.mj_lambda2 + 1],
                           log |-> <<>>]))

(***************************************************************************)
(* VelocityConstraint::writeback_impulses (dim2: one tangent impulse).     *)
(***************************************************************************)
\* variant: element k is written to point k
RECURSIVE WritebackContactsByPosition(_, _, _)
WritebackContactsByPosition(c, manifold, k) ==
    IF k >= c.num_contacts THEN manifold
    ELSE WritebackContactsByPosition(c,
            [manifold EXCEPT
                !.points[k + 1].data.impulse = c.elements[k + 1].normal_part.impulse,
                !.points[k + 1].data.tangent_impulse =
                    c.elements[k + 1].tangent_part[1].impulse],
            k + 1)

RECURSIVE WritebackContacts(_, _, _)
WritebackContacts(c, manifold, k) ==
    IF k >= c.num_contacts THEN manifold
    ELSE
        LET contact_id == c.manifold_contact_id[k + 1]
            next == [manifold EXCEPT
                        !.points[contact_id + 1].data.impulse =
                            c.elements[k + 1].normal_part.impulse,
                        !.points[contact_id + 1].data.tangent_impulse =
                            c.elements[k + 1].tangent_part[1].impulse]
        IN  WritebackContacts(c, next, k + 1)

WritebackImpulses(c, manifolds_all) ==
    [manifolds_all EXCEPT
        ![c.manifold_id + 1] = WritebackContacts(c, manifolds_all[c.manifold_id + 1], 0)]

(***************************************************************************)
(* Bounds of the model.                                                    *)
(***************************************************************************)
\* largest number of solver contacts of manifold 0
MaxContacts == 3

\* largest params.max_velocity_iterations
MaxVelocityIterations == 2

\* solve calls made in free order on one buffer
MaxSolveCalls == 3

(***************************************************************************)
(* State.                                                                  *)
(***************************************************************************)
VARIABLES
    pc,                  \* position of control in solve_island ("idle" before the call)
    params,              \* IntegrationParameters
    island_id,           \* argument of solve_island
    manifold_indices,    \* argument of solve_island
    joint_indices,       \* argument of solve_island
    counters,            \* counters.solver.<timer>: TRUE while the timer runs
    bodies,              \* RigidBodySet
    manifolds,           \* [&mut ContactManifold]
    joints,              \* [JointGraphEdge]
    contact_constraints, \* IslandSolver.contact_constraints
    joint_constraints,   \* IslandSolver.joint_constraints
    mj_lambdas,          \* VelocitySolver's delta-velocity buffer
    iter,                \* velocity solver: current iteration
    ci,                  \* velocity solver: index of the next constraint
    entry,               \* observation: bodies, manifolds, joints, solver state at the call
    pre,                 \* observation: state before the latest sweep / writeback call
    phases,              \* observation: phases completed by this call, in order
    log,                 \* observation: element updates of the latest solve call
    integrated           \* observation: how often each body was integrated by this call

vars == <<pc, params, island_id, manifold_indices, joint_indices, counters, bodies,
          manifolds, joints, contact_constraints, joint_constraints, mj_lambdas,
          iter, ci, entry, pre, phases, log, integrated>>

Timers == {"velocity_assembly_time", "velocity_update_time",
           "velocity_resolution_time", "position_resolution_time"}

(***************************************************************************)
(* Inputs: the islands the model runs on.                                  *)
(*   bodies 0, 1, 2 form island 0 (active set offsets 0, 1, 2); body 3 is  *)
(*   the only body of island 1.  Manifold 0 joins bodies 0 and 1 along the *)
(*   x axis, manifold 1 joins bodies 1 and 2 along the y axis, joint 0     *)
(*   joins bodies 0 and 2.                                                 *)
(***************************************************************************)
Q(n, d) == Rat(n, d)

ContactKind(i) ==
    CASE i = 0 ->  \* new elastic contact on the line of centres, no friction
            [point |-> V(0, 0), dist |-> Zero, friction |-> Zero,
             restitution |-> One, tangent_velocity |-> VZero, is_bouncy |-> TRUE,
             data |-> [impulse |-> Zero, tangent_impulse |-> Zero]]
      [] i = 1 ->  \* penetrating resting contact with cached impulses
            [point |-> V(0, 0), dist |-> Q(-1, 4), friction |-> Q(1, 2),
             restitution |-> Zero, tangent_velocity |-> VZero, is_bouncy |-> FALSE,
             data |-> [impulse |-> One, tangent_impulse |-> Q(1, 4)]]
      [] i = 2 ->  \* off-centre resting contact, high friction, conveyor velocity
            [point |-> V(0, 1), dist |-> Zero, friction |-> One,
             restitution |-> Zero, tangent_velocity |-> V(0, 1), is_bouncy |-> FALSE,
             data |-> [impulse |-> Zero, tangent_impulse |-> Zero]]
      [] OTHER ->  \* separated bouncy contact with cached impulses
            [point |-> V(0, -1), dist |-> Q(1, 4), friction |-> Q(1, 2),
             restitution |-> Q(1, 2), tangent_velocity |-> VZero, is_bouncy |-> TRUE,
             data |-> [impulse |-> One, tangent_impulse |-> Q(-1, 2)]]

ContactWithId(kind, id) ==
    [point |-> kind.point, dist |-> kind.dist, friction |-> kind.friction,
     restitution |-> kind.restitution, tangent_velocity |-> kind.tangent_velocity,
     is_bouncy |-> kind.is_bouncy, contact_id |-> id, data |-> kind.data]

SolverContactsOf(start, stride, n) ==
    [k \in 1..n |->
        ContactWithId(ContactKind((start + stride * (k - 1)) % 4),
                      n - (k - 1))]

\* The manifold's points: point p holds the cached impulses its solver contact
\* carries (the narrow phase copies them), point 0 holds stale ones.
PointsOf(contacts) ==
    [p \in 1..(Len(contacts) + 1) |->
        IF p = 1
        THEN [local_p |-> V(7, 7), data |-> [impulse |-> R(3), tangent_impulse |-> R(2)]]
        ELSE [local_p |-> V(p, 0), data |-> contacts[Len(contacts) - (p - 1) + 1].data]]

Manifold0(contacts) ==
    [body1 |-> 0, body2 |-> 1, normal |-> V(1, 0), relative_dominance |-> 0,
     solver_contacts |-> contacts, warmstart_multiplier |-> One,
     constraint_index |-> 0, points |-> PointsOf(contacts)]

Manifold1(dominance) ==
    LET contacts ==
            << ContactWithId(
                 [point |-> V(1, 1), dist |-> Q(-1, 2), friction |-> Q(1, 2),
                  restitution |-> Zero, tangent_velocity |-> VZero, is_bouncy |-> FALSE,
                  data |-> [impulse |-> R(2), tangent_impulse |-> One]], 1) >>
    IN  [body1 |-> 1, body2 |-> 2, normal |-> V(0, 1), relative_dominance |-> dominance,
         solver_contacts |-> contacts, warmstart_multiplier |-> Q(1, 2),
         constraint_index |-> 0, points |-> PointsOf(contacts)]

Body(com, linvel, angvel, im, island, offset) ==
    [world_com |-> com, linvel |-> linvel, angvel |-> angvel,
     effective_inv_mass |-> im, effective_world_inv_inertia_sqrt |-> One,
     active_island_id |-> island, active_set_offset |-> offset]

\* velocity sets: head-on, head-on with spin and slip, separating, oblique
BodiesOf(v) ==
    LET v0 == CASE v = 0 -> V(1, 0) [] v = 1 -> V(1, 1) [] v = 2 -> V(-1, 0) [] OTHER -> V(2, -1)
        v1 == CASE v = 0 -> V(-1, 0) [] v = 1 -> V(-1, 0) [] v = 2 -> V(1, 0) [] OTHER -> V(0, 0)
        w0 == IF v = 1 THEN One ELSE Zero
    IN  << Body(V(-1, 0), v0, w0, One, 0, 0),
           Body(V(1, 0), v1, Zero, One, 0, 1),
           Body(V(1, 2), V(0, -1), Zero, One, 0, 2),
           Body(V(5, 5), V(1, 0), One, One, 1, 0) >>

ParamsOf(iterations) ==
    [dt |-> Q(1, 4), warmstart_coeff |-> One, velocity_solve_fraction |-> Q(1, 2),
     velocity_based_erp |-> Q(1, 2), max_velocity_iterations |-> iterations]

(***************************************************************************)
(* Collaborators of solve_island that live outside the two source files,   *)
(* modelled from their description.                                        *)
(***************************************************************************)
\* RigidBody::integrate(dt): the old velocity moves the position.
Integrate(rb, dt) == [rb EXCEPT !.world_com = VAdd(@, VScale(rb.linvel, dt))]

\* RigidBodySet::foreach_active_island_body_mut_internal(island, integrate)
IntegrateIsland(bs, island, dt) ==
    [b \in 1..Len(bs) |->
        IF bs[b].active_island_id = island THEN Integrate(bs[b], dt) ELSE bs[b]]

CountIsland(counts, bs, island) ==
    [b \in 1..Len(bs) |->
        IF bs[b].active_island_id = island THEN counts[b] + 1 ELSE counts[b]]

IslandSize(bs, island) == Cardinality({b \in 1..Len(bs) : bs[b].active_island_id = island})

\* Position counterpart of one chunk of a manifold.
PositionConstraint(manifold, bs, manifold_points) ==
    [rb1 |-> manifold.body1, rb2 |-> manifold.body2, normal |-> manifold.normal,
     im1 |-> bs[manifold.body1 + 1].effective_inv_mass,
     im2 |-> bs[manifold.body2 + 1].effective_inv_mass,
     dists |-> [k \in 1..Len(manifold_points) |-> manifold_points[k].dist]]

PositionConstraintsOf(manifold, bs) ==
    LET chunks == Chunks(manifold.solver_contacts, MAX_MANIFOLD_POINTS)
    IN  [l \in 1..Len(chunks) |-> PositionConstraint(manifold, bs, chunks[l])]

\* SolverConstraints::init for contacts: both vectors are reset, then every
\* referenced manifold is handed to the generators (push mode).
RECURSIVE InitVelocity(_, _, _, _, _, _)
InitVelocity(out, p, bs, ms, indices, n) ==
    IF n >= Len(indices) THEN out
    ELSE InitVelocity(Generate(p, indices[n + 1], ms[indices[n + 1] + 1], bs, out, TRUE),
                      p, bs, ms, indices, n + 1)

RECURSIVE InitPosition(_, _, _, _, _)
InitPosition(out, bs, ms, indices, n) ==
    IF n >= Len(indices) THEN out
    ELSE InitPosition(out \o PositionConstraintsOf(ms[indices[n + 1] + 1], bs),
                      bs, ms, indices, n + 1)

ContactsInit(p, bs, ms, indices) ==
    [velocity_constraints |-> InitVelocity(<<>>, p, bs, ms, indices, 0),
     position_constraints |-> InitPosition(<<>>, bs, ms, indices, 0)]

\* SolverConstraints::init for joints: one velocity and one position
\* constraint per referenced joint.
JointsInit(bs, js, indices) ==
    [velocity_constraints |->
        [n \in 1..Len(indices) |->
            [joint_id |-> indices[n],
             mj_lambda1 |-> bs[js[indices[n] + 1].body1 + 1].active_set_offset,
             mj_lambda2 |-> bs[js[indices[n] + 1].body2 + 1].active_set_offset,
             im1 |-> bs[js[indices[n] + 1].body1 + 1].effective_inv_mass,
             im2 |-> bs[js[indices[n] + 1].body2 + 1].effective_inv_mass,
             impulse |-> js[indices[n] + 1].impulse]],
     position_constraints |-> [n \in 1..Len(indices) |-> [joint_id |-> indices[n]]]]

\* The index (0-based, into manifold_indices) of the first referenced manifold
\* whose relative_dominance is not 0; Len(indices) when there is none.
RECURSIVE FirstDominant(_, _, _)
FirstDominant(ms, indices, n) ==
    IF n >= Len(indices) THEN n
    ELSE IF ms[indices[n + 1] + 1].relative_dominance # 0 THEN n
    ELSE FirstDominant(ms, indices, n + 1)

\* The slot of a body in the island's delta-velocity buffer.
BodyOfSlot(bs, island, slot) ==
    CHOOSE b \in 1..Len(bs) :
        bs[b].active_island_id = island /\ bs[b].active_set_offset = slot

\* VelocitySolver: commit of the delta-velocities to the island's bodies.
Commit(bs, island, mj) ==
    [b \in 1..Len(bs) |->
        IF bs[b].active_island_id = island
        THEN [bs[b] EXCEPT
                !.linvel = VAdd(@, mj[bs[b].active_set_offset + 1].linear),
                !.angvel = RAdd(@, mj[bs[b].active_set_offset + 1].angular)]
        ELSE bs[b]]

\* One joint velocity constraint applying impulse lambda along the x axis.
JointApply(jc, mj, lambda) ==
    LET first == [mj EXCEPT ![jc.mj_lambda1 + 1].linear =
                        VAdd(@, VScale(V(1, 0), RMul(jc.im1, lambda)))]
    IN  [first EXCEPT ![jc.mj_lambda2 + 1].linear =
                        VAdd(@, VScale(V(1, 0), RMul(RNeg(jc.im2), lambda)))]

\* PositionSolver: one pass pushing the two bodies of every penetrating
\* contact apart along the normal, by their inverse-mass shares.
RECURSIVE Deepest(_, _)
Deepest(dists, k) ==
    IF k > Len(dists) THEN Zero ELSE RMin(dists[k], Deepest(dists, k + 1))

RECURSIVE PositionSolve(_, _, _)
PositionSolve(bs, pcs, n) ==
    IF n > Len(pcs) THEN bs
    ELSE
        LET c == pcs[n]
            depth == RNeg(Deepest(c.dists, 1))
            share == RInv(RAdd(c.im1, c.im2))
            moved == [bs EXCEPT
                        ![c.rb1 + 1].world_com =
                            VSub(@, VScale(c.normal, RMul(depth, RMul(c.im1, share)))),
                        ![c.rb2 + 1].world_com =
                            VAdd(@, VScale(c.normal, RMul(depth, RMul(c.im2, share))))]
        IN  PositionSolve(moved, pcs, n + 1)

(***************************************************************************)
(* Initial states: the caller is about to call solve_island.  The solver's *)
(* stored constraints and delta-velocity buffer are either fresh or left   *)
(* over from an earlier step.                                              *)
(***************************************************************************)
CallKinds ==
    { [manifold_indices |-> <<>>,     joint_indices |-> <<>>,  dominance |-> 0],
      [manifold_indices |-> <<>>,     joint_indices |-> <<0>>, dominance |-> 0],
      [manifold_indices |-> <<0>>,    joint_indices |-> <<>>,  dominance |-> 0],
      [manifold_indices |-> <<0>>,    joint_indices |-> <<0>>, dominance |-> 0],
      [manifold_indices |-> <<0, 1>>, joint_indices |-> <<>>,  dominance |-> 0],
      [manifold_indices |-> <<0, 1>>, joint_indices |-> <<>>,  dominance |-> 1] }

Leftover(bs, ms) ==
    [contact |-> ContactsInit(ParamsOf(1), bs, ms, <<0>>),
     joint |-> JointsInit(bs, <<[body1 |-> 0, body2 |-> 2, impulse |-> Zero]>>, <<0>>),
     mj_lambdas |-> [b \in 1..3 |-> [linear |-> V(1, -1), angular |-> One]]]

Fresh ==
    [contact |-> [velocity_constraints |-> <<>>, position_constraints |-> <<>>],
     joint |-> [velocity_constraints |-> <<>>, position_constraints |-> <<>>],
     mj_lambdas |-> <<>>]

InitState(call, bs, ms, js, solver, iterations) ==
        /\ pc = "idle"
        /\ params = ParamsOf(iterations)
        /\ island_id = 0
        /\ manifold_indices = call.manifold_indices
        /\ joint_indices = call.joint_indices
        /\ counters = [t \in Timers |-> FALSE]
        /\ bodies = bs
        /\ manifolds = ms
        /\ joints = js
        /\ contact_constraints = solver.contact
        /\ joint_constraints = solver.joint
        /\ mj_lambdas = solver.mj_lambdas
        /\ iter = 0
        /\ ci = 0
        /\ entry = [bodies |-> bs, manifolds |-> ms, joints |-> js,
                    contact_constraints |-> solver.contact,
                    joint_constraints |-> solver.joint,
                    mj_lambdas |-> solver.mj_lambdas]
        /\ pre = [velocity_constraints |-> <<>>, mj_lambdas |-> <<>>,
                  manifolds |-> <<>>, bodies |-> <<>>, solved |-> 0, written |-> 0]
        /\ phases = <<>>
        /\ log = <<>>
        /\ integrated = [b \in 1..Len(bs) |-> 0]

InitSolver(call, bs, ms, js, iterations, stale) ==
    InitState(call, bs, ms, js, IF stale THEN Leftover(bs, ms) ELSE Fresh, iterations)

InitWith(call, start, stride, n, v, iterations, stale) ==
    InitSolver(call, BodiesOf(v),
               << Manifold0(SolverContactsOf(start, stride, n)), Manifold1(call.dominance) >>,
               << [body1 |-> 0, body2 |-> 2, impulse |-> Q(1, 2)] >>,
               iterations, stale)

Init ==
    \E call \in CallKinds, start \in 0..3, stride \in 0..1, n \in 0..MaxContacts,
       v \in 0..3, iterations \in 1..MaxVelocityIterations, stale \in BOOLEAN :
        \* inputs that cannot differ are drawn once
        /\ (n <= 1 => stride = 0)
        /\ (n = 0 => start = 0)
        /\ (call.manifold_indices = <<>> => n = MaxContacts /\ start = 1 /\ stride = 1)
        /\ (call.manifold_indices = <<>> /\ call.joint_indices = <<>> => iterations = 1)
        /\ (call.manifold_indices # <<>> \/ call.joint_indices # <<>> => ~stale)
        /\ InitWith(call, start, stride, n, v, iterations, stale)

(***************************************************************************)
(* solve_island, line by line.                                             *)
(***************************************************************************)
\* line 38
\* variant: the test is inverted
HasConstraintsInverted(mi, ji) == Len(mi) = 0 \/ Len(ji) = 0

\* variant: the joints are forgotten
HasConstraintsManifoldsOnly(mi, ji) == Len(mi) # 0

HasConstraints(mi, ji) == Len(mi) # 0 \/ Len(ji) # 0

Resume(t) == counters' = [counters EXCEPT ![t] = TRUE]

Pause(t) == counters' = [counters EXCEPT ![t] = FALSE]

\* line 42
ResumeAssembly ==
    /\ pc = "idle"
    /\ HasConstraints(manifold_indices, joint_indices)
    /\ Resume("velocity_assembly_time")
    /\ pc' = "assembly"
    /\ UNCHANGED <<params, island_id, manifold_indices, joint_indices, bodies, manifolds,
                   joints, contact_constraints, joint_constraints, mj_lambdas, iter, ci,
                   entry, pre, phases, log, integrated>>

\* lines 43-44, every referenced manifold passing generate's assert_eq
InitContacts ==
    /\ pc = "assembly"
    /\ FirstDominant(manifolds, manifold_indices, 0) = Len(manifold_indices)
    /\ contact_constraints' = ContactsInit(params, bodies, manifolds, manifold_indices)
    /\ pc' = "contacts_assembled"
    /\ UNCHANGED <<params, island_id, manifold_indices, joint_indices, counters, bodies,
                   manifolds, joints, joint_constraints, mj_lambdas, iter, ci,
                   entry, pre, phases, log, integrated>>

\* lines 43-44 and velocity_constraint.rs:147: the assert_eq of generate fails
\* on a referenced manifold and the panic unwinds out of solve_island.
InitContactsAbort ==
    /\ pc = "assembly"
    /\ FirstDominant(manifolds, manifold_indices, 0) < Len(manifold_indices)
    /\ contact_constraints' =
         [velocity_constraints |->
            InitVelocity(<<>>, params, bodies, manifolds,
                SubSeq(manifold_indices, 1, FirstDominant(manifolds, manifold_indices, 0)), 0),
          position_constraints |->
            InitPosition(<<>>, bodies, manifolds,
                SubSeq(manifold_indices, 1, FirstDominant(manifolds, manifold_indices, 0)), 0)]
    /\ pc' = "aborted"
    /\ UNCHANGED <<params, island_id, manifold_indices, joint_indices, counters, bodies,
                   manifolds, joints, joint_constraints, mj_lambdas, iter, ci,
                   entry, pre, phases, log, integrated>>

\* lines 45-46
InitJoints ==
    /\ pc = "contacts_assembled"
    /\ joint_constraints' = JointsInit(bodies, joints, joint_indices)
    /\ pc' = "joints_assembled"
    /\ UNCHANGED <<params, island_id, manifold_indices, joint_indices, counters, bodies,
                   manifolds, joints, contact_constraints, mj_lambdas, iter, ci,
                   entry, pre, phases, log, integrated>>

\* line 47
PauseAssembly ==
    /\ pc = "joints_assembled"
    /\ Pause("velocity_assembly_time")
    /\ pc' = "assembled"
    /\ phases' = Append(phases, "ASSEMBLED")
    /\ UNCHANGED <<params, island_id, manifold_indices, joint_indices, bodies, manifolds,
                   joints, contact_constraints, joint_constraints, mj_lambdas, iter, ci,
                   entry, pre, log, integrated>>

\* line 50
ResumeUpdate ==
    /\ pc = "assembled"
    /\ Resume("velocity_update_time")
    /\ pc' = "update"
    /\ UNCHANGED <<params, island_id, manifold_indices, joint_indices, bodies, manifolds,
                   joints, contact_constraints, joint_constraints, mj_lambdas, iter, ci,
                   entry, pre, phases, log, integrated>>

\* lines 51-53
IntegrateBodies ==
    /\ pc = "update"
    /\ bodies' = IntegrateIsland(bodies, island_id, params.dt)
    /\ integrated' = CountIsland(integrated, bodies, island_id)
    /\ pc' = "updated"
    /\ UNCHANGED <<params, island_id, manifold_indices, joint_indices, counters, manifolds,
                   joints, contact_constraints, joint_constraints, mj_lambdas, iter, ci,
                   entry, pre, phases, log>>

\* line 54
PauseUpdate ==
    /\ pc = "updated"
    /\ Pause("velocity_update_time")
    /\ pc' = "integrated"
    /\ phases' = Append(phases, "INTEGRATED")
    /\ UNCHANGED <<params, island_id, manifold_indices, joint_indices, bodies, manifolds,
                   joints, contact_constraints, joint_constraints, mj_lambdas, iter, ci,
                   entry, pre, log, integrated>>

\* line 56
ResumeVelocity ==
    /\ pc = "integrated"
    /\ Resume("velocity_resolution_time")
    /\ pc' = "velocity"
    /\ UNCHANGED <<params, island_id, manifold_indices, joint_indices, bodies, manifolds,
                   joints, contact_constraints, joint_constraints, mj_lambdas, iter, ci,
                   entry, pre, phases, log, integrated>>

(***************************************************************************)
(* VelocitySolver::solve (lines 57-65), constraint by constraint: clear    *)
(* the buffer, warm start, max_velocity_iterations sweeps (joints, then    *)
(* contacts), commit, write the impulses back.                             *)
(***************************************************************************)
NumContactConstraints == Len(contact_constraints.velocity_constraints)

JointImpulses == {One, Q(-1, 2)}

AfterSweep(k) == IF k + 1 >= params.max_velocity_iterations THEN "vs_commit" ELSE "vs_joints"

VsBegin ==
    /\ pc = "velocity"
    /\ mj_lambdas' = [b \in 1..IslandSize(bodies, island_id) |-> DeltaVelZero]
    /\ pc' = IF NumContactConstraints = 0 THEN "vs_joints" ELSE "vs_warmstart"
    /\ iter' = 0
    /\ ci' = 0
    /\ UNCHANGED <<params, island_id, manifold_indices, joint_indices, counters, bodies,
                   manifolds, joints, contact_constraints, joint_constraints,
                   entry, pre, phases, log, integrated>>

VsWarmstart ==
    /\ pc = "vs_warmstart"
    /\ ci < NumContactConstraints
    /\ mj_lambdas' = Warmstart(contact_constraints.velocity_constraints[ci + 1], mj_lambdas)
    /\ ci' = IF ci + 1 = NumContactConstraints THEN 0 ELSE ci + 1
    /\ pc' = IF ci + 1 = NumContactConstraints THEN "vs_joints" ELSE "vs_warmstart"
    /\ UNCHANGED <<params, island_id, manifold_indices, joint_indices, counters, bodies,
                   manifolds, joints, contact_constraints, joint_constraints, iter,
                   entry, pre, phases, log, integrated>>

\* The joint constraints of one sweep: each applies some impulse to its two
\* bodies.  The contact sweep that follows starts from the buffer they leave.
VsJointSolve ==
    /\ pc = "vs_joints"
    /\ \E lambda \in JointImpulses :
         /\ Len(joint_constraints.velocity_constraints) = 0 => lambda = One
         /\ mj_lambdas' =
              IF Len(joint_constraints.velocity_constraints) = 0 THEN mj_lambdas
              ELSE JointApply(joint_constraints.velocity_constraints[1], mj_lambdas, lambda)
         /\ joint_constraints' =
              IF Len(joint_constraints.velocity_constraints) = 0 THEN joint_constraints
              ELSE [joint_constraints EXCEPT
                        !.velocity_constraints[1].impulse = RAdd(@, lambda)]
    /\ pre' = [pre EXCEPT !.velocity_constraints = contact_constraints.velocity_constraints,
                          !.mj_lambdas = mj_lambdas']
    /\ log' = <<>>
    /\ ci' = 0
    /\ pc' = IF NumContactConstraints = 0 THEN AfterSweep(iter) ELSE "vs_solve"
    /\ iter' = IF NumContactConstraints = 0 THEN iter + 1 ELSE iter
    /\ UNCHANGED <<params, island_id, manifold_indices, joint_indices, counters, bodies,
                   manifolds, joints, contact_constraints,
                   entry, phases, integrated>>

VsSolve ==
    /\ pc = "vs_solve"
    /\ ci < NumContactConstraints
    /\ LET Store(res) ==
                /\ contact_constraints' =
                     [contact_constraints EXCEPT !.velocity_constraints[ci + 1] = res.c]
                /\ mj_lambdas' = res.mj_lambdas
                /\ log' = res.log
       IN  Store(Solve(contact_constraints.velocity_constraints[ci + 1], mj_lambdas))
    /\ pre' = [pre EXCEPT !.solved = ci]
    /\ ci' = IF ci + 1 = NumContactConstraints THEN 0 ELSE ci + 1
    /\ pc' = IF ci + 1 = NumContactConstraints THEN AfterSweep(iter) ELSE "vs_solve"
    /\ iter' = IF ci + 1 = NumContactConstraints THEN iter + 1 ELSE iter
    /\ UNCHANGED <<params, island_id, manifold_indices, joint_indices, counters, bodies,
                   manifolds, joints, joint_constraints,
                   entry, phases, integrated>>

VsCommit ==
    /\ pc = "vs_commit"
    /\ bodies' = Commit(bodies, island_id, mj_lambdas)
    /\ pre' = [pre EXCEPT !.bodies = bodies]
    /\ joints' = [j \in 1..Len(joints) |->
                    IF \E n \in 1..Len(joint_constraints.velocity_constraints) :
                            joint_constraints.velocity_constraints[n].joint_id = j - 1
                    THEN [joints[j] EXCEPT !.impulse =
                            joint_constraints.velocity_constraints[
                                CHOOSE n \in 1..Len(joint_constraints.velocity_constraints) :
                                    joint_constraints.velocity_constraints[n].joint_id = j - 1
                            ].impulse]
                    ELSE joints[j]]
    /\ ci' = 0
    /\ pc' = IF NumContactConstraints = 0 THEN "vs_done" ELSE "vs_writeback"
    /\ UNCHANGED <<params, island_id, manifold_indices, joint_indices, counters, manifolds,
                   contact_constraints, joint_constraints, mj_lambdas, iter,
                   entry, phases, log, integrated>>

VsWriteback ==
    /\ pc = "vs_writeback"
    /\ ci < NumContactConstraints
    /\ manifolds' = WritebackImpulses(contact_constraints.velocity_constraints[ci + 1],
                                      manifolds)
    /\ pre' = [pre EXCEPT !.manifolds = manifolds, !.written = ci]
    /\ ci' = ci + 1
    /\ pc' = IF ci + 1 = NumContactConstraints THEN "vs_done" ELSE "vs_writeback"
    /\ UNCHANGED <<params, island_id, manifold_indices, joint_indices, counters, bodies,
                   joints, contact_constraints, joint_constraints, mj_lambdas, iter,
                   entry, phases, log, integrated>>

\* line 66
PauseVelocity ==
    /\ pc = "vs_done"
    /\ Pause("velocity_resolution_time")
    /\ pc' = "velocity_solved"
    /\ phases' = Append(phases, "VELOCITY_SOLVED")
    /\ UNCHANGED <<params, island_id, manifold_indices, joint_indices, bodies, manifolds,
                   joints, contact_constraints, joint_constraints, mj_lambdas, iter, ci,
                   entry, pre, log, integrated>>

\* line 68
ResumePosition ==
    /\ pc = "velocity_solved"
    /\ Resume("position_resolution_time")
    /\ pc' = "position"
    /\ UNCHANGED <<params, island_id, manifold_indices, joint_indices, bodies, manifolds,
                   joints, contact_constraints, joint_constraints, mj_lambdas, iter, ci,
                   entry, pre, phases, log, integrated>>

\* lines 69-75
SolvePositions ==
    /\ pc = "position"
    /\ bodies' = PositionSolve(bodies, contact_constraints.position_constraints, 1)
    /\ pc' = "position_done"
    /\ UNCHANGED <<params, island_id, manifold_indices, joint_indices, counters, manifolds,
                   joints, contact_constraints, joint_constraints, mj_lambdas, iter, ci,
                   entry, pre, phases, log, integrated>>

\* line 76, then the return at line 84
PausePosition ==
    /\ pc = "position_done"
    /\ Pause("position_resolution_time")
    /\ pc' = "returned"
    /\ phases' = Append(phases, "POSITION_SOLVED")
    /\ UNCHANGED <<params, island_id, manifold_indices, joint_indices, bodies, manifolds,
                   joints, contact_constraints, joint_constraints, mj_lambdas, iter, ci,
                   entry, pre, log, integrated>>

\* line 78
FastResumeUpdate ==
    /\ pc = "idle"
    /\ ~HasConstraints(manifold_indices, joint_indices)
    /\ Resume("velocity_update_time")
    /\ pc' = "fast_update"
    /\ UNCHANGED <<params, island_id, manifold_indices, joint_indices, bodies, manifolds,
                   joints, contact_constraints, joint_constraints, mj_lambdas, iter, ci,
                   entry, pre, phases, log, integrated>>

\* lines 79-81
FastIntegrateBodies ==
    /\ pc = "fast_update"
    /\ bodies' = IntegrateIsland(bodies, island_id, params.dt)
    /\ integrated' = CountIsland(integrated, bodies, island_id)
    /\ pc' = "fast_updated"
    /\ UNCHANGED <<params, island_id, manifold_indices, joint_indices, counters, manifolds,
                   joints, contact_constraints, joint_constraints, mj_lambdas, iter, ci,
                   entry, pre, phases, log>>

\* line 82, then the return at line 84
FastPauseUpdate ==
    /\ pc = "fast_updated"
    /\ Pause("velocity_update_time")
    /\ pc' = "returned"
    /\ phases' = Append(phases, "INTEGRATED")
    /\ UNCHANGED <<params, island_id, manifold_indices, joint_indices, bodies, manifolds,
                   joints, contact_constraints, joint_constraints, mj_lambdas, iter, ci,
                   entry, pre, log, integrated>>

Next ==
    \/ ResumeAssembly
    \/ InitContacts
    \/ InitContactsAbort
    \/ InitJoints
    \/ PauseAssembly
    \/ ResumeUpdate
    \/ IntegrateBodies
    \/ PauseUpdate
    \/ ResumeVelocity
    \/ VsBegin
    \/ VsWarmstart
    \/ VsJointSolve
    \/ VsSolve
    \/ VsCommit
    \/ VsWriteback
    \/ PauseVelocity
    \/ ResumePosition
    \/ SolvePositions
    \/ PausePosition
    \/ FastResumeUpdate
    \/ FastIntegrateBodies
    \/ FastPauseUpdate

Spec == Init /\ [][Next]_vars

(***************************************************************************)
(* VelocityConstraint::generate on its own: one call on one manifold, in   *)
(* push mode onto a vector that may already hold constraints, or in        *)
(* indexed mode into a vector sized beforehand and filled with the Empty   *)
(* variant.                                                                *)
(***************************************************************************)
Empty == [variant |-> "Empty"]

SizedFor(manifold) ==
    [x \in 1..(manifold.constraint_index + NumActiveConstraints(manifold) + 1) |-> Empty]

GenerateState(mode, bs, ms, out) ==
    /\ pc = mode
    /\ params = ParamsOf(1)
    /\ island_id = 0
    /\ manifold_indices = <<0>>
    /\ joint_indices = <<>>
    /\ counters = [t \in Timers |-> FALSE]
    /\ bodies = bs
    /\ manifolds = ms
    /\ joints = <<>>
    /\ contact_constraints = [velocity_constraints |-> out, position_constraints |-> <<>>]
    /\ joint_constraints = Fresh.joint
    /\ mj_lambdas = <<>>
    /\ iter = 0
    /\ ci = 0
    /\ entry = [bodies |-> bs, manifolds |-> ms, joints |-> <<>>,
                contact_constraints |->
                    [velocity_constraints |-> out, position_constraints |-> <<>>],
                joint_constraints |-> Fresh.joint,
                mj_lambdas |-> <<>>]
    /\ pre = [velocity_constraints |-> <<>>, mj_lambdas |-> <<>>,
              manifolds |-> <<>>, bodies |-> <<>>, solved |-> 0, written |-> 0]
    /\ phases = <<>>
    /\ log = <<>>
    /\ integrated = [b \in 1..Len(bs) |-> 0]

GenerateInput(push, bs, manifold, other, prior) ==
    GenerateState(IF push THEN "generate_push" ELSE "generate_indexed",
                  bs, <<manifold, other>>,
                  IF push
                  THEN (IF prior = 0 THEN <<>>
                        ELSE Generate(ParamsOf(1), 1, other, bs, <<>>, TRUE))
                  ELSE SizedFor(manifold))

InitGenerate ==
    \E start \in 0..3, stride \in 0..1, n \in 0..MaxContacts, v \in 0..3,
       push \in BOOLEAN, x \in 0..1 :
        /\ (n <= 1 => stride = 0)
        /\ (n = 0 => start = 0)
        /\ GenerateInput(push, BodiesOf(v),
                         [Manifold0(SolverContactsOf(start, stride, n))
                            EXCEPT !.constraint_index = x],
                         Manifold1(0), x)

GeneratePush ==
    /\ pc = "generate_push"
    /\ manifolds[manifold_indices[1] + 1].relative_dominance = 0
    /\ contact_constraints' =
         [contact_constraints EXCEPT !.velocity_constraints =
            Generate(params, manifold_indices[1], manifolds[manifold_indices[1] + 1],
                     bodies, @, TRUE)]
    /\ pc' = "pushed"
    /\ UNCHANGED <<params, island_id, manifold_indices, joint_indices, counters, bodies,
                   manifolds, joints, joint_constraints, mj_lambdas, iter, ci,
                   entry, pre, phases, log, integrated>>

GenerateIndexed ==
    /\ pc = "generate_indexed"
    /\ manifolds[manifold_indices[1] + 1].relative_dominance = 0
    /\ contact_constraints' =
         [contact_constraints EXCEPT !.velocity_constraints =
            Generate(params, manifold_indices[1], manifolds[manifold_indices[1] + 1],
                     bodies, @, FALSE)]
    /\ pc' = "written"
    /\ UNCHANGED <<params, island_id, manifold_indices, joint_indices, counters, bodies,
                   manifolds, joints, joint_constraints, mj_lambdas, iter, ci,
                   entry, pre, phases, log, integrated>>

NextGenerate ==
    \/ GeneratePush
    \/ GenerateIndexed

SpecGenerate == InitGenerate /\ [][NextGenerate]_vars

(***************************************************************************)
(* warmstart and solve on one delta-velocity buffer: the contact           *)
(* constraints of the referenced manifolds are generated, the buffer is    *)
(* zeroed, every constraint is warm started, then solve is called on the   *)
(* constraints in any order, with nothing else writing the buffer.         *)
(***************************************************************************)
AccumulateState(bs, ms, indices, constraints) ==
    /\ pc = "acc_warmstart"
    /\ params = ParamsOf(1)
    /\ island_id = 0
    /\ manifold_indices = indices
    /\ joint_indices = <<>>
    /\ counters = [t \in Timers |-> FALSE]
    /\ bodies = bs
    /\ manifolds = ms
    /\ joints = <<>>
    /\ contact_constraints = constraints
    /\ joint_constraints = Fresh.joint
    /\ mj_lambdas = [b \in 1..IslandSize(bs, 0) |-> DeltaVelZero]
    /\ iter = 0
    /\ ci = 0
    /\ entry = [bodies |-> bs, manifolds |-> ms, joints |-> <<>>,
                contact_constraints |-> constraints,
                joint_constraints |-> Fresh.joint,
                mj_lambdas |-> <<>>]
    /\ pre = [velocity_constraints |-> <<>>, mj_lambdas |-> <<>>,
              manifolds |-> <<>>, bodies |-> <<>>, solved |-> 0, written |-> 0]
    /\ phases = <<>>
    /\ log = <<>>
    /\ integrated = [b \in 1..Len(bs) |-> 0]

AccumulateInput(bs, ms, indices) ==
    AccumulateState(bs, ms, indices, ContactsInit(ParamsOf(1), bs, ms, indices))

InitAccumulate ==
    \E start \in 0..3, stride \in 0..1, n \in 1..MaxContacts, v \in 0..3,
       indices \in {<<0>>, <<0, 1>>} :
        /\ (n <= 1 => stride = 0)
        /\ AccumulateInput(BodiesOf(v),
                           << Manifold0(SolverContactsOf(start, stride, n)), Manifold1(0) >>,
                           indices)

AccWarmstart ==
    /\ pc = "acc_warmstart"
    /\ ci < NumContactConstraints
    /\ mj_lambdas' = Warmstart(contact_constraints.velocity_constraints[ci + 1], mj_lambdas)
    /\ ci' = ci + 1
    /\ pc' = IF ci + 1 = NumContactConstraints THEN "acc_solve" ELSE "acc_warmstart"
    /\ UNCHANGED <<params, island_id, manifold_indices, joint_indices, counters, bodies,
                   manifolds, joints, contact_constraints, joint_constraints, iter,
                   entry, pre, phases, log, integrated>>

AccSolve ==
    /\ pc = "acc_solve"
    /\ iter < MaxSolveCalls
    /\ \E n \in 0..(NumContactConstraints - 1) :
        /\ LET Store(res) ==
                    /\ contact_constraints' =
                         [contact_constraints EXCEPT !.velocity_constraints[n + 1] = res.c]
                    /\ mj_lambdas' = res.mj_lambdas
                    /\ log' = res.log
           IN  Store(Solve(contact_constraints.velocity_constraints[n + 1], mj_lambdas))
        /\ pre' = [pre EXCEPT !.velocity_constraints = contact_constraints.velocity_constraints,
                              !.mj_lambdas = mj_lambdas,
                              !.solved = n]
    /\ iter' = iter + 1
    /\ UNCHANGED <<pc, params, island_id, manifold_indices, joint_indices, counters, bodies,
                   manifolds, joints, joint_constraints, ci,
                   entry, phases, integrated>>

NextAccumulate ==
    \/ AccWarmstart
    \/ AccSolve

SpecAccumulate == InitAccumulate /\ [][NextAccumulate]_vars

(***************************************************************************)
(* Vocabulary of the properties.                                           *)
(***************************************************************************)
VelocityConstraints == contact_constraints.velocity_constraints

FullPath == Len(manifold_indices) # 0 \/ Len(joint_indices) # 0

\* control is past the velocity solver's writeback
AfterVelocitySolve ==
    pc \in {"vs_done", "velocity_solved", "position", "position_done", "returned"}

\* the manifold point a solver contact refers to
PointOf(manifold, contact) == manifold.points[contact.contact_id + 1]

\* the solver contact of a manifold that carries a contact id
ContactOfId(manifold, id) ==
    manifold.solver_contacts[
        CHOOSE k \in 1..Len(manifold.solver_contacts) :
            manifold.solver_contacts[k].contact_id = id]

\* a contact solve has run since the sweep began; pre.solved is its constraint
SolveActed == log # <<>>

(***************************************************************************)
(* C1.  Impulse cone after the velocity solve: once the velocity solver    *)
(* has written the impulses back, every referenced manifold point's        *)
(* tangent impulse magnitude is at most its own contact's friction         *)
(* coefficient times its stored normal impulse.                            *)
(***************************************************************************)
C1_ImpulseCone ==
    (AfterVelocitySolve /\ FullPath) =>
        \A n \in 1..Len(manifold_indices) :
            \A k \in 1..Len(manifolds[manifold_indices[n] + 1].solver_contacts) :
                LET m == manifolds[manifold_indices[n] + 1]
                    contact == m.solver_contacts[k]
                    stored == PointOf(m, contact).data
                IN  RLe(RAbs(stored.tangent_impulse),
                        RMul(contact.friction, stored.impulse))

(***************************************************************************)
(* C2.  Normal impulses are non-negative across all iterations: every      *)
(* contact element of every stored velocity constraint has                 *)
(* normal_part.impulse >= 0, as seeded by generate from non-negative       *)
(* cached impulses and warm-start coefficients and after every solve call, *)
(* whatever the joints left in the delta-velocity buffer.                  *)
(***************************************************************************)
C2_NormalImpulsesNonNegative ==
    \A n \in 1..Len(VelocityConstraints) :
        \A k \in 1..VelocityConstraints[n].num_contacts :
            RLe(Zero, VelocityConstraints[n].elements[k].normal_part.impulse)

\* a solve call projected a positive normal impulse onto zero
C2_Witness ==
    /\ SolveActed
    /\ \E k \in 1..VelocityConstraints[pre.solved + 1].num_contacts :
        /\ RLt(Zero, pre.velocity_constraints[pre.solved + 1].elements[k].normal_part.impulse)
        /\ VelocityConstraints[pre.solved + 1].elements[k].normal_part.impulse = Zero

(***************************************************************************)
(* C3.  No-constraint equivalence: when solve_island is called with empty  *)
(* manifold_indices and empty joint_indices, at return each active body of *)
(* the island has been integrated by dt exactly once (position moved by    *)
(* its unchanged velocity), and nothing else is mutated at any point of    *)
(* the call: the stored contact and joint constraints and the              *)
(* delta-velocity buffer are as they were, no solve has run, manifolds,    *)
(* joints and the bodies of other islands are untouched.                   *)
(***************************************************************************)
C3_NoConstraintEquivalence ==
    (Len(manifold_indices) = 0 /\ Len(joint_indices) = 0) =>
        /\ contact_constraints = entry.contact_constraints
        /\ joint_constraints = entry.joint_constraints
        /\ mj_lambdas = entry.mj_lambdas
        /\ manifolds = entry.manifolds
        /\ joints = entry.joints
        /\ log = <<>>
        /\ pc \in {"idle", "fast_update", "fast_updated", "returned"}
        /\ \A b \in 1..Len(bodies) :
                entry.bodies[b].active_island_id # island_id =>
                    bodies[b] = entry.bodies[b] /\ integrated[b] = 0
        /\ pc = "returned" =>
            /\ phases = <<"INTEGRATED">>
            /\ \A b \in 1..Len(bodies) :
                entry.bodies[b].active_island_id = island_id =>
                    /\ integrated[b] = 1
                    /\ bodies[b] =
                        [entry.bodies[b] EXCEPT
                            !.world_com =
                                <<RAdd(@[1], RMul(entry.bodies[b].linvel[1], params.dt)),
                                  RAdd(@[2], RMul(entry.bodies[b].linvel[2], params.dt))>>]

\* the call returned on the path without constraints, over constraints stored
\* by an earlier step, having moved a body
C3_Witness ==
    /\ pc = "returned"
    /\ Len(manifold_indices) = 0 /\ Len(joint_indices) = 0
    /\ Len(contact_constraints.velocity_constraints) > 0
    /\ Len(mj_lambdas) > 0
    /\ bodies # entry.bodies

(***************************************************************************)
(* C4.  Phase order of one step.                                           *)
(***************************************************************************)
AllPhases == <<"ASSEMBLED", "INTEGRATED", "VELOCITY_SOLVED", "POSITION_SOLVED">>

IsPrefix(s, t) == Len(s) <= Len(t) /\ s = SubSeq(t, 1, Len(s))

AssemblyStates == {"assembly", "contacts_assembled", "joints_assembled"}

UpdateStates == {"update", "updated"}

VelocityStates ==
    {"velocity", "vs_warmstart", "vs_joints", "vs_solve", "vs_commit", "vs_writeback", "vs_done"}

PositionStates == {"position", "position_done"}

\* C4 as stated: every call that returns has traversed ASSEMBLED, INTEGRATED,
\* VELOCITY_SOLVED and POSITION_SOLVED, in that order, each exactly once.
C4_EveryStepTraversesAllPhases ==
    pc = "returned" => phases = AllPhases

\* the impulses every stored contact constraint holds are the ones stored at
\* the manifold points it refers to
WrittenBack ==
    \A n \in 1..Len(VelocityConstraints) :
        \A k \in 1..VelocityConstraints[n].num_contacts :
            LET c == VelocityConstraints[n]
                stored == manifolds[c.manifold_id + 1].points[c.manifold_contact_id[k] + 1].data
            IN  /\ stored.impulse = c.elements[k].normal_part.impulse
                /\ stored.tangent_impulse = c.elements[k].tangent_part[1].impulse

(***************************************************************************)
(* C4, amended.  A call with at least one manifold or joint index that     *)
(* returns has completed ASSEMBLED, INTEGRATED, VELOCITY_SOLVED,           *)
(* POSITION_SOLVED in that order, each exactly once, each completing       *)
(* before the next begins; a call with neither completes INTEGRATED only;  *)
(* a call whose assembly aborts completes no phase.  On the full path the  *)
(* contact and joint constraints are assembled from the bodies as they     *)
(* were at entry (before integration), the bodies are integrated exactly   *)
(* once before the velocity solver starts, and the position solver starts  *)
(* only after the velocity solver has committed the delta-velocities to    *)
(* the integrated bodies and written the impulses back.                    *)
(***************************************************************************)
C4_PhaseOrder ==
    /\ IsPrefix(phases, IF FullPath THEN AllPhases ELSE <<"INTEGRATED">>)
    /\ pc = "returned" => phases = (IF FullPath THEN AllPhases ELSE <<"INTEGRATED">>)
    /\ pc = "aborted" => phases = <<>>
    /\ pc \in AssemblyStates => phases = <<>>
    /\ pc \in UpdateStates \cup {"assembled"} => phases = <<"ASSEMBLED">>
    /\ pc \in VelocityStates \cup {"integrated"} => phases = <<"ASSEMBLED", "INTEGRATED">>
    /\ pc \in PositionStates \cup {"velocity_solved"} =>
            phases = <<"ASSEMBLED", "INTEGRATED", "VELOCITY_SOLVED">>
    \* assembled from the pre-integration bodies, and untouched until the
    \* velocity solver runs
    /\ pc \in {"contacts_assembled", "joints_assembled", "assembled", "update", "updated",
               "integrated", "velocity"} =>
            contact_constraints =
                ContactsInit(params, entry.bodies, entry.manifolds, manifold_indices)
    /\ pc \in {"joints_assembled", "assembled", "update", "updated", "integrated",
               "velocity"} =>
            joint_constraints = JointsInit(entry.bodies, entry.joints, joint_indices)
    \* not integrated before the assembly is over, integrated once before the
    \* velocity solver runs
    /\ pc \in AssemblyStates \cup {"assembled", "update"} =>
            bodies = entry.bodies /\ \A b \in 1..Len(bodies) : integrated[b] = 0
    /\ pc \in VelocityStates \ {"vs_writeback", "vs_done"} =>
            /\ bodies = IntegrateIsland(entry.bodies, island_id, params.dt)
            /\ \A b \in 1..Len(bodies) :
                  integrated[b] = IF bodies[b].active_island_id = island_id THEN 1 ELSE 0
    \* the position solver starts from committed velocities and written impulses
    /\ pc = "position" =>
            /\ bodies = Commit(IntegrateIsland(entry.bodies, island_id, params.dt),
                               island_id, mj_lambdas)
            /\ WrittenBack

\* a full-path call returned after a velocity solve that changed a velocity and
\* a stored impulse, and a position solve that moved a body
C4_Witness ==
    /\ pc = "returned"
    /\ FullPath
    /\ phases = AllPhases
    /\ manifolds # entry.manifolds
    /\ \E b \in 1..Len(bodies) :
        /\ bodies[b].linvel # entry.bodies[b].linvel
        /\ bodies[b].world_com # IntegrateIsland(entry.bodies, island_id, params.dt)[b].world_com

(***************************************************************************)
(* C5.  Impulse writeback: after writeback_impulses of a velocity          *)
(* constraint, for every k < num_contacts the manifold point               *)
(* manifolds[manifold_id].points[manifold_contact_id[k]] holds the normal  *)
(* impulse of element k as data.impulse and its tangent impulse as         *)
(* data.tangent_impulse; the other points of that manifold, every other    *)
(* manifold and every other field are as before the call.                  *)
(***************************************************************************)
WritebackActed ==
    \/ pc = "vs_writeback" /\ ci >= 1
    \/ pc = "vs_done" /\ NumContactConstraints > 0

C5_ImpulseWriteback ==
    WritebackActed =>
        LET c == VelocityConstraints[pre.written + 1]
            Ids == {c.manifold_contact_id[k] : k \in 1..c.num_contacts}
        IN  /\ Len(manifolds) = Len(pre.manifolds)
            /\ \A m \in 1..Len(manifolds) :
                m # c.manifold_id + 1 => manifolds[m] = pre.manifolds[m]
            /\ [manifolds[c.manifold_id + 1] EXCEPT !.points = <<>>]
                    = [pre.manifolds[c.manifold_id + 1] EXCEPT !.points = <<>>]
            /\ Len(manifolds[c.manifold_id + 1].points)
                    = Len(pre.manifolds[c.manifold_id + 1].points)
            /\ \A p \in 1..Len(manifolds[c.manifold_id + 1].points) :
                IF p - 1 \in Ids
                THEN \A k \in 1..c.num_contacts :
                        c.manifold_contact_id[k] = p - 1 =>
                            manifolds[c.manifold_id + 1].points[p] =
                                [pre.manifolds[c.manifold_id + 1].points[p] EXCEPT
                                    !.data.impulse = c.elements[k].normal_part.impulse,
                                    !.data.tangent_impulse =
                                        c.elements[k].tangent_part[1].impulse]
                ELSE manifolds[c.manifold_id + 1].points[p] =
                        pre.manifolds[c.manifold_id + 1].points[p]

\* a full batch was written back to points whose indices differ from the
\* elements' positions, and changed what the points held
C5_Witness ==
    /\ WritebackActed
    /\ VelocityConstraints[pre.written + 1].num_contacts = MAX_MANIFOLD_POINTS
    /\ \A k \in 1..MAX_MANIFOLD_POINTS :
        LET c == VelocityConstraints[pre.written + 1]
        IN  /\ c.manifold_contact_id[k] # k - 1
            /\ manifolds[c.manifold_id + 1].points[c.manifold_contact_id[k] + 1]
                # pre.manifolds[c.manifold_id + 1].points[c.manifold_contact_id[k] + 1]

(***************************************************************************)
(* C6.  Elastic head-on exchange: two equal-mass bodies approaching along  *)
(* the contact normal share one bouncy contact on their line of centres    *)
(* (zero angular Jacobian terms), restitution 1, friction 0, dist 0, no    *)
(* cached impulse, no joint.  After generate, warm start, one sweep of     *)
(* solve and the commit, the two bodies have exchanged their velocity      *)
(* components along the normal, the components along the tangent and the   *)
(* angular velocities are unchanged, and the sum of the two linear momenta *)
(* is the same as at entry.                                                *)
(***************************************************************************)
ElasticHeadOn ==
    /\ manifold_indices = <<0>>
    /\ joint_indices = <<>>
    /\ params.max_velocity_iterations = 1
    /\ Len(entry.manifolds[1].solver_contacts) = 1
    /\ LET m == entry.manifolds[1]
           contact == m.solver_contacts[1]
           rb1 == entry.bodies[m.body1 + 1]
           rb2 == entry.bodies[m.body2 + 1]
       IN  /\ contact.is_bouncy
           /\ contact.restitution = One
           /\ contact.friction = Zero
           /\ contact.dist = Zero
           /\ contact.data.impulse = Zero
           /\ contact.data.tangent_impulse = Zero
           /\ rb1.effective_inv_mass = rb2.effective_inv_mass
           /\ GCrossVV(VSub(contact.point, rb1.world_com), m.normal) = Zero
           /\ GCrossVV(VSub(contact.point, rb2.world_com), m.normal) = Zero
           /\ RLe(Dot(rb2.linvel, m.normal), Dot(rb1.linvel, m.normal))

Committed ==
    pc \in {"vs_writeback", "vs_done", "velocity_solved", "position", "position_done",
            "returned"}

C6_ElasticHeadOnExchange ==
    (ElasticHeadOn /\ Committed) =>
        LET m == entry.manifolds[1]
            old1 == entry.bodies[m.body1 + 1]
            old2 == entry.bodies[m.body2 + 1]
            new1 == bodies[m.body1 + 1]
            new2 == bodies[m.body2 + 1]
            tangent == <<RNeg(m.normal[2]), m.normal[1]>>
        IN  /\ Dot(new1.linvel, m.normal) = Dot(old2.linvel, m.normal)
            /\ Dot(new2.linvel, m.normal) = Dot(old1.linvel, m.normal)
            /\ Dot(new1.linvel, tangent) = Dot(old1.linvel, tangent)
            /\ Dot(new2.linvel, tangent) = Dot(old2.linvel, tangent)
            /\ new1.angvel = old1.angvel
            /\ new2.angvel = old2.angvel
            /\ VAdd(new1.linvel, new2.linvel) = VAdd(old1.linvel, old2.linvel)

\* linvel1 = (1,0), linvel2 = (-1,0), normal = (1,0) became (-1,0) and (1,0)
C6_Witness ==
    /\ ElasticHeadOn
    /\ Committed
    /\ entry.manifolds[1].normal = V(1, 0)
    /\ entry.bodies[1].linvel = V(1, 0)
    /\ entry.bodies[2].linvel = V(-1, 0)
    /\ bodies[1].linvel = V(-1, 0)
    /\ bodies[2].linvel = V(1, 0)

Running == {t \in Timers : counters[t]}

(***************************************************************************)
(* C7.  Counter scoping: every timer resume is followed by the pause of    *)
(* the same timer before any other timer is resumed, on every exit path    *)
(* of a phase, an aborting phase included: no timer is running when        *)
(* control has left solve_island, by return or by abort.                   *)
(***************************************************************************)
C7_NoTimerLeftRunning ==
    /\ Cardinality(Running) <= 1
    /\ pc \in {"returned", "aborted"} => Running = {}

(***************************************************************************)
(* What the code does keep: at most one timer runs at any time and it is   *)
(* the timer of the phase in progress, and no timer runs between phases or *)
(* at a return.  The abort of the assembly phase leaves                    *)
(* velocity_assembly_time running.                                         *)
(***************************************************************************)
TimersFollowPhases ==
    /\ Cardinality(Running) <= 1
    /\ pc \in {"idle", "assembled", "integrated", "velocity_solved", "returned"} =>
            Running = {}
    /\ pc \in AssemblyStates => Running = {"velocity_assembly_time"}
    /\ pc \in UpdateStates \cup {"fast_update", "fast_updated"} =>
            Running = {"velocity_update_time"}
    /\ pc \in VelocityStates => Running = {"velocity_resolution_time"}
    /\ pc \in PositionStates => Running = {"position_resolution_time"}
    /\ pc = "aborted" => Running = {"velocity_assembly_time"}

\* the assembly aborted on the second referenced manifold, after the first one
\* was assembled
C7_Witness ==
    /\ pc = "aborted"
    /\ Len(VelocityConstraints) > 0
    /\ manifolds[manifold_indices[2] + 1].relative_dominance # 0
    /\ counters["velocity_assembly_time"]

(***************************************************************************)
(* C8.  Idempotence at a fixed point: if, when a sweep starts, every       *)
(* tangent element's clamped update and every normal element's projected   *)
(* update return the element's current impulse, then the sweep of solve    *)
(* over all constraints changes no impulse and no entry of the             *)
(* delta-velocity buffer, so the commit adds the same delta-velocities.    *)
(***************************************************************************)
FixedPoint(constraints, mj) ==
    \A n \in 1..Len(constraints) :
        \A i \in 0..(constraints[n].num_contacts - 1) :
            LET c == constraints[n]
                mj_lambda1 == mj[c.mj_lambda1 + 1]
                mj_lambda2 == mj[c.mj_lambda2 + 1]
            IN  /\ NormalNewImpulse(c, i, mj_lambda1, mj_lambda2)
                    = c.elements[i + 1].normal_part.impulse
                /\ \A j \in 0..(DIM - 2) :
                    TangentNewImpulse(c, i, j, mj_lambda1, mj_lambda2)
                        = c.elements[i + 1].tangent_part[j + 1].impulse

\* a contact sweep is under way or has just ended; pre holds the constraints
\* and the buffer it started from
InSweep ==
    /\ NumContactConstraints > 0
    /\ \/ pc = "vs_solve" /\ pre.velocity_constraints # <<>>
       \/ pc \in {"vs_joints", "vs_commit"} /\ iter >= 1

C8_FixedPointIdempotence ==
    (InSweep /\ FixedPoint(pre.velocity_constraints, pre.mj_lambdas)) =>
        /\ VelocityConstraints = pre.velocity_constraints
        /\ mj_lambdas = pre.mj_lambdas

\* a whole sweep ran from a fixed point that holds a non-zero impulse and a
\* non-zero delta-velocity
C8_Witness ==
    /\ pc \in {"vs_joints", "vs_commit"}
    /\ iter >= 1
    /\ NumContactConstraints > 0
    /\ FixedPoint(pre.velocity_constraints, pre.mj_lambdas)
    /\ log # <<>>
    /\ \E n \in 1..Len(pre.velocity_constraints) :
        pre.velocity_constraints[n].elements[1].normal_part.impulse # Zero
    /\ \E b \in 1..Len(pre.mj_lambdas) : pre.mj_lambdas[b] # DeltaVelZero

(***************************************************************************)
(* C9.  Batching: for a manifold with n solver contacts generate emits     *)
(* exactly ceil(n / MAX_MANIFOLD_POINTS) velocity constraints (none when   *)
(* n = 0), which is num_active_constraints(manifold); batch l holds the    *)
(* contacts l*MAX_MANIFOLD_POINTS .. min(n, (l+1)*MAX_MANIFOLD_POINTS)-1   *)
(* in order, with 1 <= num_contacts <= MAX_MANIFOLD_POINTS, so each solver *)
(* contact is in exactly one element of exactly one constraint; in push    *)
(* mode the batches are appended in order, in indexed mode batch l is      *)
(* written at constraint_index + l, and no other slot changes.             *)
(***************************************************************************)
Min(a, b) == IF a <= b THEN a ELSE b

Generated == pc \in {"pushed", "written"}

\* where the first batch goes
BatchBase ==
    IF pc = "pushed" THEN Len(entry.contact_constraints.velocity_constraints)
    ELSE manifolds[manifold_indices[1] + 1].constraint_index

\* ceil(n / MAX_MANIFOLD_POINTS)
BatchCount ==
    (Len(manifolds[manifold_indices[1] + 1].solver_contacts) + MAX_MANIFOLD_POINTS - 1)
        \div MAX_MANIFOLD_POINTS

C9_Batching ==
    Generated =>
        LET m == manifolds[manifold_indices[1] + 1]
            n == Len(m.solver_contacts)
            old == entry.contact_constraints.velocity_constraints
            out == VelocityConstraints
        IN  /\ BatchCount = NumActiveConstraints(m)
            /\ (n = 0) = (BatchCount = 0)
            /\ Len(out) = (IF pc = "pushed" THEN Len(old) + BatchCount ELSE Len(old))
            /\ \A x \in 1..Len(out) :
                x \notin (BatchBase + 1)..(BatchBase + BatchCount) => out[x] = old[x]
            /\ \A l \in 0..(BatchCount - 1) :
                LET c == out[BatchBase + l + 1]
                IN  /\ c # Empty
                    /\ c.manifold_id = manifold_indices[1]
                    /\ c.num_contacts =
                         Min(n, (l + 1) * MAX_MANIFOLD_POINTS) - l * MAX_MANIFOLD_POINTS
                    /\ 1 <= c.num_contacts
                    /\ c.num_contacts <= MAX_MANIFOLD_POINTS
                    /\ \A k \in 0..(c.num_contacts - 1) :
                        LET contact == m.solver_contacts[l * MAX_MANIFOLD_POINTS + k + 1]
                        IN  /\ c.manifold_contact_id[k + 1] = contact.contact_id
                            /\ c.elements[k + 1].normal_part =
                                 NormalPart(params, m, bodies[m.body1 + 1],
                                            bodies[m.body2 + 1], contact)
                            /\ c.elements[k + 1].tangent_part[1] =
                                 TangentPart(params, m, bodies[m.body1 + 1],
                                             bodies[m.body2 + 1], contact, 0)
            /\ \A q \in 1..n :
                Cardinality({lk \in (0..(BatchCount - 1)) \X (0..(MAX_MANIFOLD_POINTS - 1)) :
                    /\ lk[2] < out[BatchBase + lk[1] + 1].num_contacts
                    /\ out[BatchBase + lk[1] + 1].manifold_contact_id[lk[2] + 1]
                         = m.solver_contacts[q].contact_id}) = 1

\* indexed mode wrote a full batch and a partial one at constraint_index 1,
\* between two slots it left Empty
C9_Witness ==
    /\ pc = "written"
    /\ BatchCount >= 2
    /\ Len(manifolds[manifold_indices[1] + 1].solver_contacts) % MAX_MANIFOLD_POINTS # 0
    /\ BatchBase = 1
    /\ VelocityConstraints[1] = Empty
    /\ VelocityConstraints[Len(VelocityConstraints)] = Empty
    /\ VelocityConstraints[2] # Empty

(***************************************************************************)
(* C10.  Sweep ordering and friction coupling: within one call of solve    *)
(* every tangent element of every contact of the constraint is updated     *)
(* before any normal element, contacts in order; the clamp bound of a      *)
(* tangent element of contact k is constraint.limit times the normal       *)
(* impulse contact k held when the call began (left by the previous        *)
(* sweep, or the warm-start seed in the first sweep); constraint.limit is  *)
(* the friction coefficient of the last contact of the batch.              *)
(***************************************************************************)
FirstSweep == (pc = "vs_solve" /\ iter = 0) \/ (pc # "vs_solve" /\ iter = 1)

C10_SweepOrdering ==
    SolveActed =>
        LET c0 == pre.velocity_constraints[pre.solved + 1]
            n == c0.num_contacts
            m == entry.manifolds[c0.manifold_id + 1]
        IN  /\ Len(log) = n * (DIM - 1) + n
            /\ \A x \in 1..(n * (DIM - 1)) :
                /\ log[x].part = "tangent"
                /\ log[x].i = (x - 1) \div (DIM - 1)
                /\ log[x].j = (x - 1) % (DIM - 1)
                /\ log[x].limit =
                     RMul(c0.limit, c0.elements[log[x].i + 1].normal_part.impulse)
            /\ \A x \in (n * (DIM - 1) + 1)..Len(log) :
                /\ log[x].part = "normal"
                /\ log[x].i = x - n * (DIM - 1) - 1
            /\ c0.limit = ContactOfId(m, c0.manifold_contact_id[n]).friction
            /\ FirstSweep =>
                \A k \in 1..n :
                    c0.elements[k].normal_part.impulse =
                        RMul(ContactOfId(m, c0.manifold_contact_id[k]).data.impulse,
                             RMul(m.warmstart_multiplier, params.warmstart_coeff))

\* a batch of two contacts with different friction coefficients was solved in
\* a later sweep, and the bound of the first contact's tangent element was
\* the last contact's friction times the first contact's normal impulse
C10_Witness ==
    /\ SolveActed
    /\ ~FirstSweep
    /\ LET c0 == pre.velocity_constraints[pre.solved + 1]
           m == entry.manifolds[c0.manifold_id + 1]
       IN  /\ c0.num_contacts = MAX_MANIFOLD_POINTS
           /\ ContactOfId(m, c0.manifold_contact_id[1]).friction
                # ContactOfId(m, c0.manifold_contact_id[c0.num_contacts]).friction
           /\ log[1].limit # Zero
           /\ log[1].limit #
                RMul(ContactOfId(m, c0.manifold_contact_id[1]).friction,
                     c0.elements[1].normal_part.impulse)

(***************************************************************************)
(* C11.  Accumulated-impulse invariant of the delta-velocity buffer:       *)
(* starting from a zeroed buffer, after the warmstart of every constraint  *)
(* and after any number of solve calls in any order, over constraints      *)
(* whose two body slots are distinct, each body's entry is the sum, over   *)
(* every element part that refers to the body, of                          *)
(* (direction * im1 * impulse, gcross1 * impulse) as first body and        *)
(* (direction * (-im2) * impulse, gcross2 * impulse) as second body, with  *)
(* the parts' current impulses.  So the entry of a body no constraint      *)
(* refers to stays zero, and a solve call changes only the two entries of  *)
(* its own bodies.                                                         *)
(***************************************************************************)
DeltaVelPlus(a, b) ==
    [linear |-> <<RAdd(a.linear[1], b.linear[1]), RAdd(a.linear[2], b.linear[2])>>,
     angular |-> RAdd(a.angular, b.angular)]

\* what one element part adds to the entry of slot
PartShare(c, slot, direction, part) ==
    DeltaVelPlus(
        IF c.mj_lambda1 = slot
        THEN [linear |-> <<RMul(direction[1], RMul(c.im1, part.impulse)),
                           RMul(direction[2], RMul(c.im1, part.impulse))>>,
              angular |-> RMul(part.gcross1, part.impulse)]
        ELSE DeltaVelZero,
        IF c.mj_lambda2 = slot
        THEN [linear |-> <<RMul(direction[1], RMul(RNeg(c.im2), part.impulse)),
                           RMul(direction[2], RMul(RNeg(c.im2), part.impulse))>>,
              angular |-> RMul(part.gcross2, part.impulse)]
        ELSE DeltaVelZero)

\* dim2: the one tangent direction of dir1 = (x, y) is (-y, x)
RECURSIVE ElementShares(_, _, _)
ElementShares(c, slot, i) ==
    IF i >= c.num_contacts THEN DeltaVelZero
    ELSE DeltaVelPlus(
            DeltaVelPlus(
                PartShare(c, slot, c.dir1, c.elements[i + 1].normal_part),
                PartShare(c, slot, <<RNeg(c.dir1[2]), c.dir1[1]>>,
                          c.elements[i + 1].tangent_part[1])),
            ElementShares(c, slot, i + 1))

RECURSIVE ConstraintShares(_, _, _)
ConstraintShares(constraints, slot, n) ==
    IF n > Len(constraints) THEN DeltaVelZero
    ELSE DeltaVelPlus(ElementShares(constraints[n], slot, 0),
                      ConstraintShares(constraints, slot, n + 1))

Referenced(slot) ==
    \E n \in 1..Len(VelocityConstraints) :
        VelocityConstraints[n].mj_lambda1 = slot \/ VelocityConstraints[n].mj_lambda2 = slot

C11_AccumulatedImpulse ==
    (/\ pc = "acc_solve"
     /\ \A n \in 1..Len(VelocityConstraints) :
            VelocityConstraints[n].mj_lambda1 # VelocityConstraints[n].mj_lambda2) =>
        /\ \A slot \in 0..(Len(mj_lambdas) - 1) :
            /\ mj_lambdas[slot + 1] = ConstraintShares(VelocityConstraints, slot, 1)
            /\ ~Referenced(slot) => mj_lambdas[slot + 1] = DeltaVelZero
        /\ iter >= 1 =>
            \A slot \in 0..(Len(mj_lambdas) - 1) :
                (/\ slot # VelocityConstraints[pre.solved + 1].mj_lambda1
                 /\ slot # VelocityConstraints[pre.solved + 1].mj_lambda2) =>
                    mj_lambdas[slot + 1] = pre.mj_lambdas[slot + 1]

\* the first constraint was solved after the last one, both changed their
\* impulses, they share a body, and the call changed the buffer
C11_Witness ==
    /\ pc = "acc_solve"
    /\ iter >= 2
    /\ NumContactConstraints >= 2
    /\ pre.solved = 0
    /\ VelocityConstraints[NumContactConstraints]
            # entry.contact_constraints.velocity_constraints[NumContactConstraints]
    /\ VelocityConstraints[1] # pre.velocity_constraints[1]
    /\ mj_lambdas # pre.mj_lambdas
    /\ \E slot \in 0..(Len(mj_lambdas) - 1) :
        /\ Referenced(slot)
        /\ mj_lambdas[slot + 1] # DeltaVelZero
        /\ \E n \in 2..NumContactConstraints :
            slot \in {VelocityConstraints[1].mj_lambda1, VelocityConstraints[1].mj_lambda2}
                \cap {VelocityConstraints[n].mj_lambda1, VelocityConstraints[n].mj_lambda2}

====
